---- MODULE Spec2Model ----
(***************************************************************************)
(* State-machine model of server.ts: the Express handlers over the two     *)
(* Firestore collections (users, blogs), the JWT middleware and startup    *)
(* seeding.  One action per store round trip of a handler: a handler is    *)
(* cut at each `await` of a store operation, and the synchronous code      *)
(* before and after the operation belongs to the same action.              *)
(*                                                                         *)
(* Strings the code inspects (usernames, e-mails) are sequences of         *)
(* one-character strings; the empty sequence stands for a falsy value      *)
(* (undefined, null or '').  Document ids are positive integers, 0 is the  *)
(* null owner.                                                             *)
(***************************************************************************)
EXTENDS Integers, Sequences, FiniteSets, Bags, TLC

VARIABLES
    phase,      \* "starting" before seedAdmin has run, "serving" afterwards
    users,      \* usersCol: sequence of user documents, the index is the doc id
    blogs,      \* blogsCol: function from blog id to blog document
    nextBlogId, \* ids handed out by blogsCol.add, never reused
    tokens,     \* the tokens jwt.sign has issued so far
    clock,      \* wall clock in hours (serverTimestamp, iat, exp)
    inflight,   \* handlers suspended at an await of a store operation
    last,       \* the most recent response sent, with the request it answers
    proc,       \* module state of the server process: env, admin.apps, db
    client      \* the single-page client: its route, token and user

vars == <<phase, users, blogs, nextBlogId, tokens, clock, inflight, last,
          proc, client>>

----------------------------------------------------------------------------
\* Bounds of the model.

\* user documents the collection may hold
MaxUsers == 3
\* blog ids blogsCol.add may hand out
MaxBlogs == 1
\* handlers that may be suspended at an await at the same time
MaxInFlight == 1
\* the last hour the clock reaches
MaxClock == 32
\* The clock is observed every TickHours hours.
TickHours == 8

\* jwt.sign(..., { expiresIn: '24h' }), in hours.
ExpiresIn == 24

----------------------------------------------------------------------------
\* Strings.

Upper == <<"A","B","C","D","E","F","G","H","I","J","K","L","M",
           "N","O","P","Q","R","S","T","U","V","W","X","Y","Z">>
Lower == <<"a","b","c","d","e","f","g","h","i","j","k","l","m",
           "n","o","p","q","r","s","t","u","v","w","x","y","z">>

LowerChar(c) ==
    IF \E i \in DOMAIN Upper : Upper[i] = c
    THEN Lower[CHOOSE i \in DOMAIN Upper : Upper[i] = c]
    ELSE c

\* String.prototype.toLowerCase
ToLowerCase(s) == [i \in DOMAIN s |-> LowerChar(s[i])]

\* email.split('@')[0]: the text before the first '@', all of it when none
SplitAt0(s) ==
    IF \E i \in DOMAIN s : s[i] = "@"
    THEN SubSeq(s, 1, (CHOOSE i \in DOMAIN s :
                          s[i] = "@" /\ \A j \in 1..(i-1) : s[j] # "@") - 1)
    ELSE s

Falsy == << >>

\* A JSON value of a request body that is not a string: a number.
Number42 == <<"number 42">>

\* typeof value === 'string': the value has String.prototype's methods
IsString(value) == value # Number42

admin == <<"a","d","m","i","n">>
AdMin == <<"A","d","m","i","n">>
al == <<"a","l">>
Al == <<"A","l">>
alAtX == <<"a","l","@","x">>

----------------------------------------------------------------------------
\* Documents.

\* bcrypt.hash(password, 10) and bcrypt.compare(password, hash)
NoHash == << >>
Hash(password) == <<"bcrypt", password>>
\* A comparison that accepts every password.
CompareAnything(password, hash) == TRUE

Compare(password, hash) == hash = Hash(password)

UserDoc(username, password, role, email, google_id, avatar) ==
    [username |-> username, password |-> password, role |-> role,
     email |-> email, google_id |-> google_id, avatar |-> avatar,
     created_at |-> clock]

UserIds == DOMAIN users

\* usersCol.where(field, '==', value): the ids of the matching documents.
\* A .limit(1) query answers with any one of them, document ids being random.
UsersWhereUsername(username) == {i \in UserIds : users[i].username = username}
UsersWhereGoogleId(sub) == {i \in UserIds : users[i].google_id = sub}
UsersWhereEmail(email) == {i \in UserIds : users[i].email = email}

\* An undefined field of a request body; Firestore refuses to store it.
Undefined == "undefined"

BlogIds == DOMAIN blogs

----------------------------------------------------------------------------
\* Token service (jsonwebtoken) and the two middlewares.

Anonymous == [id |-> 0, username |-> Falsy, role |-> ""]
NoToken == [id |-> 0, username |-> Falsy, role |-> "", iat |-> -1, exp |-> -1]

\* A token whose role is read off the username.
SignRoleByUsername(id, doc) ==
    [id |-> id, username |-> doc.username,
     role |-> IF doc.username = admin THEN "admin" ELSE "user",
     iat |-> clock, exp |-> clock + ExpiresIn]

\* A token signed for the id the next document will get.
SignNextId(id, doc) ==
    [id |-> Len(users) + 1, username |-> doc.username,
     role |-> IF doc.role = "" THEN "user" ELSE doc.role,
     iat |-> clock, exp |-> clock + ExpiresIn]

\* jwt.sign({ id, username, role: role || 'user' }, JWT_SECRET, { expiresIn: '24h' })
Sign(id, doc) ==
    [id |-> id, username |-> doc.username,
     role |-> IF doc.role = "" THEN "user" ELSE doc.role,
     iat |-> clock, exp |-> clock + ExpiresIn]

Claims(tok) == [id |-> tok.id, username |-> tok.username, role |-> tok.role]

\* The Authorization header of a request: absent, a bearer token that was not
\* signed with JWT_SECRET, or a token the server issued.
NoHeader == [kind |-> "none", tok |-> NoToken]
BadHeader == [kind |-> "bad", tok |-> NoToken]
Bearer(tok) == [kind |-> "bearer", tok |-> tok]
Headers == {NoHeader, BadHeader} \cup {Bearer(t) : t \in tokens}

\* A verification that checks the signature only.
VerifyFailsIgnoringExpiry(hdr) == hdr.kind = "bad"

\* jwt.verify(token, JWT_SECRET, cb): err for a bad signature or when the
\* clock has reached exp.
VerifyFails(hdr) == hdr.kind = "bad" \/ clock >= hdr.tok.exp

\* A strict middleware that lets a token through without verifying it.
AuthenticateTokenUnverified(hdr) == IF hdr.kind = "none" THEN 401 ELSE 0

\* authenticateToken: the status it answers with, 0 when it calls next()
AuthenticateToken(hdr) ==
    IF hdr.kind = "none" THEN 401
    ELSE IF VerifyFails(hdr) THEN 403
    ELSE 0

\* tryAuthenticate: req.user
TryAuthenticate(hdr) ==
    IF hdr.kind = "none" THEN Anonymous
    ELSE IF VerifyFails(hdr) THEN Anonymous
    ELSE Claims(hdr.tok)

----------------------------------------------------------------------------
\* Suspended handlers and responses.

NoBody == [title |-> "", content |-> "", excerpt |-> ""]
NoProfile == [sub |-> "", name |-> Falsy, email |-> Falsy, picture |-> ""]

\* The database client handle (getDb).

\* process.env as getDb reads it: whether FIREBASE_PROJECT_ID and
\* FIREBASE_CLIENT_EMAIL are set, and whether FIREBASE_PRIVATE_KEY is unset,
\* set to something that is no key, or set to a key
Envs ==
    [projectId : BOOLEAN, clientEmail : BOOLEAN,
     privateKey : {"unset", "malformed", "valid"}]

Configured == [projectId |-> TRUE, clientEmail |-> TRUE, privateKey |-> "valid"]

\* The module state of a process that has just started: no app initialised
\* (admin.apps.length), db undefined (0), no handle made yet.  The handles a
\* process makes are numbered in the order of the assignments to db.
NewProcess(env) == [env |-> env, apps |-> 0, made |-> 0, db |-> 0]

\* !process.env.FIREBASE_PROJECT_ID || !process.env.FIREBASE_CLIENT_EMAIL ||
\* !process.env.FIREBASE_PRIVATE_KEY
EnvMissing(env) ==
    ~env.projectId \/ ~env.clientEmail \/ env.privateKey = "unset"

\* db = admin.firestore(); usersCol = ...; blogsCol = ...
Assigned(p) == [p EXCEPT !.apps = 1, !.made = @ + 1, !.db = p.made + 1]

\* A getDb without the test of db: every call makes a handle.
GetDbEveryCall(p) ==
    IF p.apps = 0 /\ (EnvMissing(p.env) \/ p.env.privateKey = "malformed")
    THEN [threw |-> TRUE, db |-> 0, proc |-> p]
    ELSE [threw |-> FALSE, db |-> Assigned(p).db, proc |-> Assigned(p)]

\* getDb(), called with the module state p: whether it throws, the handle it
\* returns and the module state it leaves.  admin.credential.cert throws on a
\* private key it cannot parse.
GetDb(p) ==
    IF p.db # 0
    THEN [threw |-> FALSE, db |-> p.db, proc |-> p]
    ELSE IF p.apps = 0 /\ EnvMissing(p.env)
    THEN [threw |-> TRUE, db |-> 0, proc |-> p]
    ELSE IF p.apps = 0 /\ p.env.privateKey = "malformed"
    THEN [threw |-> TRUE, db |-> 0, proc |-> p]
    ELSE [threw |-> FALSE, db |-> Assigned(p).db, proc |-> Assigned(p)]

\* A handler waiting for the store operation named by pc; db is the handle
\* getDb returned to it.
Pending(kind, pc) ==
    [kind |-> kind, pc |-> pc, hdr |-> NoHeader, caller |-> Anonymous,
     blogId |-> 0, body |-> NoBody, username |-> Falsy, password |-> "",
     profile |-> NoProfile, doc |-> 0, db |-> GetDb(proc).db]

Park(r) == inflight (+) SetToBag({r})
Resume(r) == inflight (-) SetToBag({r})
HasSlot == BagCardinality(inflight) < MaxInFlight

NoUser == [id |-> 0, username |-> Falsy, role |-> ""]

\* res.status(status).json(...): what the client receives.
Response(op, status, error) ==
    [op |-> op, status |-> status, error |-> error, hdr |-> NoHeader,
     caller |-> Anonymous, username |-> Falsy, blogId |-> 0, docs |-> << >>,
     user |-> NoUser,
     token |-> NoToken, userCount |-> -1]

Projection(id, doc) ==
    [id |-> id, username |-> doc.username,
     role |-> IF doc.role = "" THEN "user" ELSE doc.role]

\* Handlers that may still add a user document; the model admits them only
\* while the collection has room for what they add.
Adders ==
    {r \in BagToSet(inflight) :
        r.kind \in {"register", "callback"} /\ r.pc # "unhandled"}
Reserved == BagCardinality([r \in Adders |-> inflight[r]])
HasRoom == Len(users) + Reserved < MaxUsers

----------------------------------------------------------------------------
\* The client (App.tsx): the route it shows, what AuthProvider holds, and the
\* origin of the last message event its window received.

NoOrigin == << >>

\* useState initialisers of App with an empty localStorage, on the route "/"
NoSession == [page |-> "/", token |-> NoToken, user |-> NoUser, origin |-> NoOrigin]

----------------------------------------------------------------------------
\* Startup.

Init ==
    /\ phase = "starting"
    /\ users = << >>
    /\ blogs = << >>
    /\ nextBlogId = 1
    /\ tokens = {}
    /\ clock = 0
    /\ inflight = EmptyBag
    /\ last = Response("none", 0, "")
    /\ proc = NewProcess(Configured)
    /\ client = NoSession

\* seedAdmin, awaited by startServer before any route is registered; it is
\* the first caller of getDb, and its catch block only logs
seedAdmin ==
    /\ phase = "starting"
    /\ phase' = "serving"
    /\ proc' = GetDb(proc).proc
    /\ IF GetDb(proc).threw
       THEN users' = users
       ELSE IF UsersWhereUsername(admin) = {}
       THEN /\ Len(users) < MaxUsers
            /\ users' = Append(users,
                   UserDoc(admin, Hash("1900"), "admin", Falsy, "", ""))
       ELSE users' = users
    /\ UNCHANGED <<blogs, nextBlogId, tokens, clock, inflight, last, client>>

\* The process exits and startServer runs again; the suspended handlers die
\* with the process, the store and the issued tokens stay.
Restart ==
    /\ phase = "serving"
    /\ phase' = "starting"
    /\ inflight' = EmptyBag
    /\ proc' = NewProcess(proc.env)
    /\ UNCHANGED <<users, blogs, nextBlogId, tokens, clock, last, client>>

----------------------------------------------------------------------------
\* POST /api/auth/register

\* A reserved-name check that compares without lowering the case.
ReservedUsernameCaseSensitive(username) == username # Falsy /\ username = admin

ReservedUsername(username) == username # Falsy /\ ToLowerCase(username) = admin

\* A lookup that compares the usernames without their case.
UsernameTakenIgnoringCase(username) ==
    \E i \in UserIds : ToLowerCase(users[i].username) = ToLowerCase(username)

\* !userSnapshot.empty
UsernameTaken(username) == UsersWhereUsername(username) # {}

\* An exception thrown by an async handler outside its try block rejects the
\* promise the handler returned, and Express does not look at that promise.
\* What follows is the runtime's choice: the unhandled rejection ends the
\* process, or it is only reported and the request is never answered.
UnhandledRejection(r) ==
    \/ /\ phase' = "crashed"
       /\ inflight' = EmptyBag
    \/ /\ HasSlot
       /\ inflight' = Park(r)
       /\ UNCHANGED phase

\* up to the answer of usersCol.where('username', '==', username).limit(1).get()
Register1(username, password) ==
    /\ phase = "serving"
    /\ IF username # Falsy /\ ~IsString(username)
       THEN \* TypeError: username.toLowerCase is not a function, before the try
            /\ UnhandledRejection([Pending("register", "unhandled") EXCEPT
                                     !.username = username, !.password = password,
                                     !.db = 0])
            /\ UNCHANGED <<last, proc>>
       ELSE IF ReservedUsername(username)
       THEN /\ last' = [Response("register", 400, "Cannot register with this username")
                          EXCEPT !.username = username]
            /\ UNCHANGED <<phase, inflight, proc>>
       ELSE IF GetDb(proc).threw
       THEN /\ last' = [Response("register", 500, "Internal server error")
                          EXCEPT !.username = username]
            /\ proc' = GetDb(proc).proc
            /\ UNCHANGED <<phase, inflight>>
       ELSE IF UsernameTaken(username)
       THEN /\ last' = [Response("register", 400, "Username already exists")
                          EXCEPT !.username = username]
            /\ proc' = GetDb(proc).proc
            /\ UNCHANGED <<phase, inflight>>
       ELSE /\ HasSlot /\ HasRoom
            /\ inflight' = Park([Pending("register", "add") EXCEPT
                                   !.username = username, !.password = password])
            /\ proc' = GetDb(proc).proc
            /\ UNCHANGED <<phase, last>>
    /\ UNCHANGED <<users, blogs, nextBlogId, tokens, clock, client>>

\* bcrypt.hash, usersCol.add and the 201 answer
Register2(r) ==
    /\ phase = "serving"
    /\ BagIn(r, inflight) /\ r.kind = "register" /\ r.pc = "add"
    /\ inflight' = Resume(r)
    /\ users' = Append(users,
           UserDoc(r.username, Hash(r.password), "user", Falsy, "", ""))
    /\ last' = [Response("register", 201, "") EXCEPT
                  !.username = r.username,
                  !.user = [id |-> Len(users) + 1, username |-> r.username,
                            role |-> "user"]]
    /\ UNCHANGED <<phase, blogs, nextBlogId, tokens, clock, proc, client>>

----------------------------------------------------------------------------
\* POST /api/auth/login

Login(username, password) ==
    /\ phase = "serving"
    /\ proc' = GetDb(proc).proc
    /\ IF GetDb(proc).threw
       THEN /\ last' = [Response("login", 500, "Internal server error")
                          EXCEPT !.username = username]
            /\ UNCHANGED tokens
       ELSE IF UsersWhereUsername(username) = {}
       THEN /\ last' = [Response("login", 401, "Invalid credentials")
                          EXCEPT !.username = username]
            /\ UNCHANGED tokens
       ELSE \E d \in UsersWhereUsername(username) :
              IF users[d].password = NoHash
              THEN /\ last' = [Response("login", 401, "This account uses social login")
                                 EXCEPT !.username = username]
                   /\ UNCHANGED tokens
              ELSE IF ~Compare(password, users[d].password)
              THEN /\ last' = [Response("login", 401, "Invalid credentials")
                                 EXCEPT !.username = username]
                   /\ UNCHANGED tokens
              ELSE /\ tokens' = tokens \cup {Sign(d, users[d])}
                   /\ last' = [Response("login", 200, "") EXCEPT
                                 !.username = username,
                                 !.token = Sign(d, users[d]),
                                 !.user = Projection(d, users[d])]
    /\ UNCHANGED <<phase, users, blogs, nextBlogId, clock, inflight, client>>

----------------------------------------------------------------------------
\* GET /auth/google/callback, from the userinfo answer on.  profile is
\* userRes.data: sub, name, email, picture.

\* name || email.split('@')[0]
DefaultUsername(profile) ==
    IF profile.name # Falsy THEN profile.name ELSE SplitAt0(profile.email)

\* jwt.sign and res.send of the page that posts OAUTH_AUTH_SUCCESS
CallbackAnswer(d, doc) ==
    /\ tokens' = tokens \cup {Sign(d, doc)}
    /\ last' = [Response("callback", 200, "") EXCEPT
                  !.username = doc.username,
                  !.token = Sign(d, doc),
                  !.user = Projection(d, doc)]

\* up to the answer of usersCol.where('google_id', '==', googleId).limit(1).get();
\* a handler is suspended only while fewer than `slots` are
Callback1Within(slots, profile) ==
    /\ phase = "serving"
    /\ proc' = GetDb(proc).proc
    /\ IF GetDb(proc).threw
       THEN /\ last' = Response("callback", 500, "Authentication failed")
            /\ UNCHANGED <<tokens, inflight>>
       ELSE IF UsersWhereGoogleId(profile.sub) # {}
       THEN /\ \E d \in UsersWhereGoogleId(profile.sub) : CallbackAnswer(d, users[d])
            /\ UNCHANGED inflight
       ELSE IF profile.email # Falsy
       THEN /\ BagCardinality(inflight) < slots /\ HasRoom
            /\ inflight' = Park([Pending("callback", "email") EXCEPT
                                   !.profile = profile])
            /\ UNCHANGED <<tokens, last>>
       ELSE IF profile.name = Falsy
       THEN \* email.split on undefined throws inside the try block
            /\ last' = Response("callback", 500, "Authentication failed")
            /\ UNCHANGED <<tokens, inflight>>
       ELSE /\ BagCardinality(inflight) < slots /\ HasRoom
            /\ inflight' = Park([Pending("callback", "add") EXCEPT
                                   !.profile = profile])
            /\ UNCHANGED <<tokens, last>>
    /\ UNCHANGED <<phase, users, blogs, nextBlogId, clock, client>>

\* the same, admitted while fewer than MaxInFlight handlers are suspended
Callback1(profile) == Callback1Within(MaxInFlight, profile)

\* the answer of usersCol.where('email', '==', email).limit(1).get()
Callback2(r) ==
    /\ phase = "serving"
    /\ BagIn(r, inflight) /\ r.kind = "callback" /\ r.pc = "email"
    /\ IF UsersWhereEmail(r.profile.email) # {}
       THEN \E d \in UsersWhereEmail(r.profile.email) :
              inflight' = Resume(r) (+) SetToBag({[r EXCEPT !.pc = "link", !.doc = d]})
       ELSE inflight' = Resume(r) (+) SetToBag({[r EXCEPT !.pc = "add"]})
    /\ UNCHANGED <<phase, users, blogs, nextBlogId, tokens, clock, last,
                  proc, client>>

\* A link written with set(): the document is replaced by { google_id }.
LinkedBySet(doc, sub) ==
    [doc EXCEPT !.google_id = sub, !.username = Falsy, !.password = NoHash,
                !.role = "", !.email = Falsy, !.avatar = ""]

\* the document after update({ google_id: googleId })
Linked(doc, sub) == [doc EXCEPT !.google_id = sub]

\* userDoc.ref.update({ google_id: googleId }), then the answer
CallbackLink(r) ==
    /\ phase = "serving"
    /\ BagIn(r, inflight) /\ r.kind = "callback" /\ r.pc = "link"
    /\ inflight' = Resume(r)
    /\ users' = [users EXCEPT ![r.doc] = Linked(@, r.profile.sub)]
    /\ CallbackAnswer(r.doc, users[r.doc])
    /\ UNCHANGED <<phase, blogs, nextBlogId, clock, proc, client>>

\* usersCol.add({...}), newUser.get(), then the answer
CallbackAdd(r) ==
    /\ phase = "serving"
    /\ BagIn(r, inflight) /\ r.kind = "callback" /\ r.pc = "add"
    /\ inflight' = Resume(r)
    /\ LET doc == UserDoc(DefaultUsername(r.profile), NoHash, "user",
                          r.profile.email, r.profile.sub, r.profile.picture)
       IN /\ users' = Append(users, doc)
          /\ CallbackAnswer(Len(users) + 1, doc)
    /\ UNCHANGED <<phase, blogs, nextBlogId, clock, proc, client>>

----------------------------------------------------------------------------
\* GET /api/blogs

\* doc => ({ id: doc.id, ...doc.data() })
Entry(i) == [id |-> i, data |-> blogs[i]]

\* blogsCol.where('user_id', '==', value): the ids of the matching documents
BlogsWhereUserId(value) == {i \in BlogIds : blogs[i].user_id = value}

\* The orders in which a query may hand back a set of documents.
Orders(S) ==
    {f \in [1..Cardinality(S) -> S] : \A i, j \in DOMAIN f : i # j => f[i] # f[j]}

\* a.created_at?.toDate?.() || new Date(0), as a number
DateOf(e) == IF e.data.created_at < 0 THEN 0 ELSE e.data.created_at

\* Array.prototype.sort with (a, b) => dateB - dateA: stable, newest first
RECURSIVE SortNewestFirst(_)
SortNewestFirst(seq) ==
    IF seq = << >> THEN << >>
    ELSE LET front == SortNewestFirst(SubSeq(seq, 1, Len(seq) - 1))
             x == seq[Len(seq)]
             k == Cardinality({i \in DOMAIN front : DateOf(front[i]) >= DateOf(x)})
         IN SubSeq(front, 1, k) \o <<x>> \o SubSeq(front, k + 1, Len(front))

\* .limit(20) of the anonymous listing
ListLimit == 20

\* A limit that was left out of the query.
TakeAll(seq, n) == seq

\* .limit(n)
Take(seq, n) == SubSeq(seq, 1, IF Len(seq) < n THEN Len(seq) ELSE n)

\* .orderBy('created_at', 'desc'): the orders in which the store may hand back
\* the documents S, newest first.  It breaks ties by document id, and document
\* ids are random: documents of the same creation time come in any order.
RECURSIVE OrderByCreatedDesc(_)
OrderByCreatedDesc(S) ==
    IF S = {} THEN {<< >>}
    ELSE LET times == {blogs[i].created_at : i \in S}
             latest == CHOOSE t \in times : \A u \in times : u <= t
             newest == {i \in S : blogs[i].created_at = latest}
         IN UNION {{<<i>> \o rest : rest \in OrderByCreatedDesc(S \ {i})} :
                      i \in newest}

\* A listing whose admin branch forgot the owner filter.
OwnBlogsAdminSeesAll(caller) ==
    IF caller.role = "admin" THEN BlogIds ELSE BlogsWhereUserId(caller.id)

\* the documents the authenticated branch looks up
OwnBlogs(caller) == BlogsWhereUserId(caller.id)

\* An anonymous listing without its where clause.
AnonymousBlogsUnfiltered == BlogIds

\* the documents the anonymous branch looks up
AnonymousBlogs == BlogsWhereUserId(0)

ListBlogs(hdr) ==
    /\ phase = "serving"
    /\ proc' = GetDb(proc).proc
    /\ LET caller == TryAuthenticate(hdr) IN
       IF GetDb(proc).threw
       THEN last' = [Response("list", 500, "Internal server error") EXCEPT
                      !.hdr = hdr, !.caller = caller]
       ELSE IF caller # Anonymous
       THEN \E f \in Orders(OwnBlogs(caller)) :
              last' = [Response("list", 200, "") EXCEPT
                        !.hdr = hdr, !.caller = caller,
                        !.docs = SortNewestFirst([i \in DOMAIN f |-> Entry(f[i])])]
       ELSE \E f \in OrderByCreatedDesc(AnonymousBlogs) :
              last' = [Response("list", 200, "") EXCEPT
                        !.hdr = hdr,
                        !.docs = Take([i \in DOMAIN f |-> Entry(f[i])], ListLimit)]
    /\ UNCHANGED <<phase, users, blogs, nextBlogId, tokens, clock, inflight,
                  client>>

\* GET /api/blogs/:id
GetBlog(id) ==
    /\ phase = "serving"
    /\ proc' = GetDb(proc).proc
    /\ IF GetDb(proc).threw
       THEN last' = [Response("get", 400, "Invalid blog ID") EXCEPT !.blogId = id]
       ELSE IF id \in BlogIds
       THEN last' = [Response("get", 200, "") EXCEPT
                      !.blogId = id, !.docs = <<Entry(id)>>]
       ELSE last' = [Response("get", 404, "Blog not found") EXCEPT !.blogId = id]
    /\ UNCHANGED <<phase, users, blogs, nextBlogId, tokens, clock, inflight,
                  client>>

----------------------------------------------------------------------------
\* POST /api/blogs

HasUndefined(body) == \E k \in DOMAIN body : body[k] = Undefined

\* A create handler that never records the caller.
UserIdAlwaysNull(caller) == 0

\* req.user ? req.user.id : null
UserId(caller) == IF caller # Anonymous THEN caller.id ELSE 0

\* blogsCol.add(blogData), blogRef.get() and the 201 answer
CreateBlog(hdr, body) ==
    /\ phase = "serving"
    /\ LET caller == TryAuthenticate(hdr)
           userId == UserId(caller)
           blogData == [user_id |-> userId, title |-> body.title,
                        content |-> body.content, excerpt |-> body.excerpt,
                        tone |-> body.tone, language |-> body.language,
                        created_at |-> clock, updated_at |-> -1]
       IN IF GetDb(proc).threw \/ HasUndefined(body)
          THEN /\ last' = [Response("create", 500, "Internal server error")
                             EXCEPT !.hdr = hdr, !.caller = caller]
               /\ UNCHANGED <<blogs, nextBlogId>>
          ELSE /\ blogs' = [i \in BlogIds \cup {nextBlogId} |->
                              IF i = nextBlogId THEN blogData ELSE blogs[i]]
               /\ nextBlogId' = nextBlogId + 1
               /\ last' = [Response("create", 201, "") EXCEPT
                             !.hdr = hdr, !.caller = caller, !.blogId = nextBlogId,
                             !.docs = <<[id |-> nextBlogId, data |-> blogData]>>]
    /\ proc' = GetDb(proc).proc
    /\ UNCHANGED <<phase, users, tokens, clock, inflight, client>>

----------------------------------------------------------------------------
\* PUT and DELETE /api/blogs/:id

\* An ownership check that lets any caller through on a post without owner.
NotAllowedUnlessOrphan(caller, doc) ==
    caller.role # "admin" /\ doc.user_id # caller.id /\ doc.user_id # 0

\* An ownership check that lets every caller with a role through.
NotAllowedWithoutRole(caller, doc) == caller.role = "" /\ doc.user_id # caller.id

\* req.user.role !== 'admin' && blogDoc.data()?.user_id !== req.user.id
NotAllowed(caller, doc) == caller.role # "admin" /\ doc.user_id # caller.id

\* An update that writes the whole document and so drops the owner.
UpdatedDroppingOwner(doc, body) ==
    [doc EXCEPT !.title = body.title, !.content = body.content,
                !.excerpt = body.excerpt, !.updated_at = clock, !.user_id = 0]

\* An update that stamps the creation time as well.
UpdatedStampingCreation(doc, body) ==
    [doc EXCEPT !.title = body.title, !.content = body.content,
                !.excerpt = body.excerpt, !.updated_at = clock,
                !.created_at = clock + 1]

\* the fields blogsCol.doc(blogId).update({...}) writes
Updated(doc, body) ==
    [doc EXCEPT !.title = body.title, !.content = body.content,
                !.excerpt = body.excerpt, !.updated_at = clock]

\* authenticateToken and the handler up to the call of update();
\* a handler is suspended only while fewer than `slots` are
PutBlog1Within(slots, hdr, id, body) ==
    /\ phase = "serving"
    /\ IF AuthenticateToken(hdr) # 0
       THEN /\ last' = [Response("put", AuthenticateToken(hdr),
                            IF hdr.kind = "none" THEN "Unauthorized" ELSE "Forbidden")
                          EXCEPT !.hdr = hdr, !.blogId = id]
            /\ UNCHANGED inflight
       ELSE LET caller == Claims(hdr.tok) IN
            IF GetDb(proc).threw
            THEN /\ last' = [Response("put", 500, "Internal server error") EXCEPT
                               !.hdr = hdr, !.caller = caller, !.blogId = id]
                 /\ UNCHANGED inflight
            ELSE IF id \notin BlogIds
            THEN /\ last' = [Response("put", 404, "Blog not found") EXCEPT
                               !.hdr = hdr, !.caller = caller, !.blogId = id]
                 /\ UNCHANGED inflight
            ELSE IF NotAllowed(caller, blogs[id])
            THEN /\ last' = [Response("put", 403, "Unauthorized to edit this blog")
                               EXCEPT !.hdr = hdr, !.caller = caller, !.blogId = id]
                 /\ UNCHANGED inflight
            ELSE IF HasUndefined(body)
            THEN /\ last' = [Response("put", 500, "Internal server error") EXCEPT
                               !.hdr = hdr, !.caller = caller, !.blogId = id]
                 /\ UNCHANGED inflight
            ELSE /\ BagCardinality(inflight) < slots
                 /\ inflight' = Park([Pending("put", "update") EXCEPT
                                        !.hdr = hdr, !.caller = caller,
                                        !.blogId = id, !.body = body])
                 /\ UNCHANGED last
    /\ proc' = IF AuthenticateToken(hdr) # 0 THEN proc ELSE GetDb(proc).proc
    /\ UNCHANGED <<phase, users, blogs, nextBlogId, tokens, clock, client>>

\* the same, admitted while fewer than MaxInFlight handlers are suspended
PutBlog1(hdr, id, body) == PutBlog1Within(MaxInFlight, hdr, id, body)

\* An update written as set(..., { merge: true }): it stores the fields even
\* when the document is gone.
PutBlog2Upsert(r) ==
    /\ phase = "serving"
    /\ BagIn(r, inflight) /\ r.kind = "put"
    /\ inflight' = Resume(r)
    /\ blogs' = [i \in BlogIds \cup {r.blogId} |->
                   IF i # r.blogId THEN blogs[i]
                   ELSE [user_id |-> 0, title |-> r.body.title,
                         content |-> r.body.content, excerpt |-> r.body.excerpt,
                         tone |-> "", language |-> "",
                         created_at |-> -1, updated_at |-> clock]]
    /\ last' = [Response("put", 200, "") EXCEPT
                  !.hdr = r.hdr, !.caller = r.caller, !.blogId = r.blogId]
    /\ UNCHANGED <<phase, users, nextBlogId, tokens, clock, proc, client>>

\* the store applies update(): it fails when the document is gone
PutBlog2(r) ==
    /\ phase = "serving"
    /\ BagIn(r, inflight) /\ r.kind = "put"
    /\ inflight' = Resume(r)
    /\ IF r.blogId \in BlogIds
       THEN /\ blogs' = [blogs EXCEPT ![r.blogId] = Updated(@, r.body)]
            /\ last' = [Response("put", 200, "") EXCEPT
                          !.hdr = r.hdr, !.caller = r.caller, !.blogId = r.blogId]
       ELSE /\ blogs' = blogs
            /\ last' = [Response("put", 500, "Internal server error") EXCEPT
                          !.hdr = r.hdr, !.caller = r.caller, !.blogId = r.blogId]
    /\ UNCHANGED <<phase, users, nextBlogId, tokens, clock, proc, client>>

\* authenticateToken and the handler up to the call of delete();
\* a handler is suspended only while fewer than `slots` are
DeleteBlog1Within(slots, hdr, id) ==
    /\ phase = "serving"
    /\ IF AuthenticateToken(hdr) # 0
       THEN /\ last' = [Response("delete", AuthenticateToken(hdr),
                            IF hdr.kind = "none" THEN "Unauthorized" ELSE "Forbidden")
                          EXCEPT !.hdr = hdr, !.blogId = id]
            /\ UNCHANGED inflight
       ELSE LET caller == Claims(hdr.tok) IN
            IF GetDb(proc).threw
            THEN /\ last' = [Response("delete", 500, "Internal server error") EXCEPT
                               !.hdr = hdr, !.caller = caller, !.blogId = id]
                 /\ UNCHANGED inflight
            ELSE IF id \notin BlogIds
            THEN /\ last' = [Response("delete", 404, "Blog not found") EXCEPT
                               !.hdr = hdr, !.caller = caller, !.blogId = id]
                 /\ UNCHANGED inflight
            ELSE IF NotAllowed(caller, blogs[id])
            THEN /\ last' = [Response("delete", 403, "Unauthorized to delete this blog")
                               EXCEPT !.hdr = hdr, !.caller = caller, !.blogId = id]
                 /\ UNCHANGED inflight
            ELSE /\ BagCardinality(inflight) < slots
                 /\ inflight' = Park([Pending("delete", "delete") EXCEPT
                                        !.hdr = hdr, !.caller = caller,
                                        !.blogId = id])
                 /\ UNCHANGED last
    /\ proc' = IF AuthenticateToken(hdr) # 0 THEN proc ELSE GetDb(proc).proc
    /\ UNCHANGED <<phase, users, blogs, nextBlogId, tokens, clock, client>>

\* the same, admitted while fewer than MaxInFlight handlers are suspended
DeleteBlog1(hdr, id) == DeleteBlog1Within(MaxInFlight, hdr, id)

\* the store applies delete(): deleting a missing document succeeds
DeleteBlog2(r) ==
    /\ phase = "serving"
    /\ BagIn(r, inflight) /\ r.kind = "delete"
    /\ inflight' = Resume(r)
    /\ blogs' = [i \in BlogIds \ {r.blogId} |-> blogs[i]]
    /\ last' = [Response("delete", 200, "") EXCEPT
                  !.hdr = r.hdr, !.caller = r.caller, !.blogId = r.blogId]
    /\ UNCHANGED <<phase, users, nextBlogId, tokens, clock, proc, client>>

----------------------------------------------------------------------------
\* GET /api/admin/stats

\* A role check that lets every authenticated caller through.
NotAdminUnlessAnonymous(caller) == caller = Anonymous

\* req.user.role !== 'admin'
NotAdmin(caller) == caller.role # "admin"

AdminStats(hdr) ==
    /\ phase = "serving"
    /\ IF AuthenticateToken(hdr) # 0
       THEN last' = [Response("stats", AuthenticateToken(hdr),
                         IF hdr.kind = "none" THEN "Unauthorized" ELSE "Forbidden")
                     EXCEPT !.hdr = hdr]
       ELSE IF NotAdmin(Claims(hdr.tok))
       THEN last' = [Response("stats", 403, "Admin access required") EXCEPT
                      !.hdr = hdr, !.caller = Claims(hdr.tok)]
       ELSE IF GetDb(proc).threw
       THEN last' = [Response("stats", 500, "Internal server error") EXCEPT
                      !.hdr = hdr, !.caller = Claims(hdr.tok)]
       ELSE last' = [Response("stats", 200, "") EXCEPT
                      !.hdr = hdr, !.caller = Claims(hdr.tok),
                      !.userCount = Len(users)]
    /\ proc' = IF AuthenticateToken(hdr) # 0 \/ NotAdmin(Claims(hdr.tok))
               THEN proc ELSE GetDb(proc).proc
    /\ UNCHANGED <<phase, users, blogs, nextBlogId, tokens, clock, inflight,
                  client>>

\* Time passes.
Tick ==
    /\ clock + TickHours <= MaxClock
    /\ clock' = clock + TickHours
    /\ UNCHANGED <<phase, users, blogs, nextBlogId, tokens, inflight, last,
                  proc, client>>

----------------------------------------------------------------------------
\* Request inputs.

Passwords == {"pw1", "pw2"}
RegUsernames == {admin, AdMin, al, Al, alAtX}
LoginUsernames == {admin, al}
LoginPasswords == {"1900", "pw1"}

Profiles ==
    {[sub |-> "g1", name |-> al, email |-> alAtX, picture |-> "pic"],
     [sub |-> "g2", name |-> Falsy, email |-> alAtX, picture |-> ""],
     [sub |-> "g3", name |-> admin, email |-> Falsy, picture |-> ""],
     [sub |-> "g4", name |-> Falsy, email |-> Falsy, picture |-> ""]}

Body1 ==
    [title |-> "T1", content |-> "C1", excerpt |-> "E1", tone |-> "formal",
     language |-> "en"]

CreateBodies == {Body1, [Body1 EXCEPT !.title = Undefined]}

UpdateBodies ==
    {[title |-> "T2", content |-> "C2", excerpt |-> "E2"],
     [title |-> Undefined, content |-> "C2", excerpt |-> "E2"]}

\* ids a client may name in a path: handed out already, or not yet
RequestIds == 1..MaxBlogs

PendingNow == BagToSet(inflight)

----------------------------------------------------------------------------
\* Account routes: seeding, restarts, register, login, external-identity login.

NextAuth ==
    \/ seedAdmin
    \/ Restart
    \/ \E u \in RegUsernames, p \in Passwords : Register1(u, p)
    \/ \E r \in PendingNow : Register2(r)
    \/ \E u \in LoginUsernames, p \in LoginPasswords : Login(u, p)
    \/ \E pr \in Profiles : Callback1(pr)
    \/ \E r \in PendingNow : Callback2(r)
    \/ \E r \in PendingNow : CallbackLink(r)
    \/ \E r \in PendingNow : CallbackAdd(r)

SpecAuth == Init /\ [][NextAuth]_vars

\* The same routes with the requests sent one after the other: a request is
\* sent only when no handler is suspended.
Quiet == inflight = EmptyBag

NextSeq ==
    \/ seedAdmin
    \/ Restart
    \/ \E u \in RegUsernames, p \in Passwords : Quiet /\ Register1(u, p)
    \/ \E r \in PendingNow : Register2(r)
    \/ \E u \in LoginUsernames, p \in LoginPasswords : Quiet /\ Login(u, p)
    \/ \E pr \in Profiles : Quiet /\ Callback1(pr)
    \/ \E r \in PendingNow : Callback2(r)
    \/ \E r \in PendingNow : CallbackLink(r)
    \/ \E r \in PendingNow : CallbackAdd(r)

SpecSeq == Init /\ [][NextSeq]_vars

----------------------------------------------------------------------------
\* The account routes with request bodies of any JSON type: the username of a
\* registration may be a number.

NextFail ==
    \/ seedAdmin
    \/ Restart
    \/ \E u \in RegUsernames \cup {Number42}, p \in Passwords : Register1(u, p)
    \/ \E r \in PendingNow : Register2(r)
    \/ \E u \in LoginUsernames, p \in LoginPasswords : Login(u, p)
    \/ \E pr \in Profiles : Callback1(pr)
    \/ \E r \in PendingNow : Callback2(r)
    \/ \E r \in PendingNow : CallbackLink(r)
    \/ \E r \in PendingNow : CallbackAdd(r)

SpecFail == Init /\ [][NextFail]_vars

----------------------------------------------------------------------------
\* Blog routes, with the account routes that give callers their tokens: the
\* seeded admin and one registered user.  Registrations do not overlap here;
\* SpecAuth explores the overlapping ones.

NoRegisterPending == \A r \in PendingNow : r.kind # "register"

Next ==
    \/ seedAdmin
    \/ Register1(al, "pw1") /\ NoRegisterPending
    \/ \E r \in PendingNow : Register2(r)
    \/ Login(admin, "1900")
    \/ Login(al, "pw1")
    \/ \E h \in Headers : ListBlogs(h)
    \/ \E id \in RequestIds : GetBlog(id)
    \/ \E h \in Headers, b \in CreateBodies :
         (~HasUndefined(b) => nextBlogId <= MaxBlogs) /\ CreateBlog(h, b)
    \/ \E h \in Headers, id \in RequestIds, b \in UpdateBodies : PutBlog1(h, id, b)
    \/ \E r \in PendingNow : PutBlog2(r)
    \/ \E h \in Headers, id \in RequestIds : DeleteBlog1(h, id)
    \/ \E r \in PendingNow : DeleteBlog2(r)
    \/ \E h \in Headers : AdminStats(h)

Spec == Init /\ [][Next]_vars

----------------------------------------------------------------------------
\* Token lifetime: the clock runs, the admin logs in, and the tokens are used
\* on a strict route and on a best-effort route.

\* tokens issued while the clock runs
MaxTokens == 2

NextClock ==
    \/ seedAdmin
    \/ Tick
    \/ Login(admin, "1900") /\ Cardinality(tokens') <= MaxTokens
    \/ \E h \in Headers : AdminStats(h)
    \/ \E h \in Headers, id \in RequestIds : DeleteBlog1(h, id)
    \/ \E h \in Headers : ListBlogs(h)

SpecClock == Init /\ [][NextClock]_vars

----------------------------------------------------------------------------
\* The public feed: anonymous posts arrive over the hours, a few of them within
\* the first hour and one an hour afterwards, and the feed is listed.

\* anonymous posts the feed may hold
MaxFeed == 21
\* posts created within the first hour
MaxBurst == 2

CreatedNow == {i \in BlogIds : blogs[i].created_at = clock}

\* An hour passes, once a post was created in the current one.
TickOne ==
    /\ CreatedNow # {}
    /\ clock' = clock + 1
    /\ UNCHANGED <<phase, users, blogs, nextBlogId, tokens, inflight, last,
                  proc, client>>

\* The admin logs in once, in the first hour, and writes one post of their own.
FeedHeaders == {NoHeader} \cup {Bearer(t) : t \in tokens}

NextFeed ==
    \/ seedAdmin
    \/ TickOne
    \/ tokens = {} /\ clock = 0 /\ Login(admin, "1900")
    \/ \E h \in FeedHeaders :
         /\ IF h = NoHeader
            THEN Cardinality(AnonymousBlogs) < MaxFeed
            ELSE OwnBlogs(TryAuthenticate(h)) = {}
         /\ Cardinality(CreatedNow) < (IF clock = 0 THEN MaxBurst ELSE 1)
         /\ CreateBlog(h, Body1)
    \/ \E h \in FeedHeaders : ListBlogs(h)

SpecFeed == Init /\ [][NextFeed]_vars

----------------------------------------------------------------------------
\* The dashboard: the admin logs in once, writes posts as the clock runs and
\* lists them.

\* posts the admin writes
MaxSorted == 3

NextSort ==
    \/ seedAdmin
    \/ Tick
    \/ tokens = {} /\ Login(admin, "1900")
    \/ \E t \in tokens : nextBlogId <= MaxSorted /\ CreateBlog(Bearer(t), Body1)
    \/ \E t \in tokens : ListBlogs(Bearer(t))

SpecSort == Init /\ [][NextSort]_vars

----------------------------------------------------------------------------
\* Overlapping writes: the admin and one registered user create a post, and
\* their updates and deletes of it overlap; the post is read and listed.

\* handlers of overlapping requests that may be suspended at the same time
MaxRacing == 2

Body2 == [title |-> "T2", content |-> "C2", excerpt |-> "E2"]

Writers == {Bearer(t) : t \in tokens}

NextRace ==
    \/ seedAdmin
    \/ Register1(al, "pw1") /\ NoRegisterPending
    \/ \E r \in PendingNow : Register2(r)
    \/ Login(admin, "1900")
    \/ Login(al, "pw1")
    \/ \E h \in Writers : nextBlogId <= MaxBlogs /\ CreateBlog(h, Body1)
    \/ \E h \in Writers, id \in RequestIds : PutBlog1Within(MaxRacing, h, id, Body2)
    \/ \E r \in PendingNow : PutBlog2(r)
    \/ \E h \in Writers, id \in RequestIds : DeleteBlog1Within(MaxRacing, h, id)
    \/ \E r \in PendingNow : DeleteBlog2(r)
    \/ \E id \in RequestIds : GetBlog(id)
    \/ \E h \in Writers \cup {NoHeader} : ListBlogs(h)

SpecRace == Init /\ [][NextRace]_vars

----------------------------------------------------------------------------
\* Overlapping external-identity logins.  The identity g3 has no e-mail in its
\* profile at first and the address al@x later.

ResolveProfiles ==
    {pr \in Profiles : pr.sub \in {"g1", "g2", "g3"}}
        \cup {[sub |-> "g3", name |-> admin, email |-> alAtX, picture |-> ""]}

NextResolve ==
    \/ seedAdmin
    \/ \E pr \in ResolveProfiles : Callback1Within(MaxRacing, pr)
    \/ \E r \in PendingNow : Callback2(r)
    \/ \E r \in PendingNow : CallbackLink(r)
    \/ \E r \in PendingNow : CallbackAdd(r)

SpecResolve == Init /\ [][NextResolve]_vars

----------------------------------------------------------------------------
\* Owners: every way to get a token (login of the seeded admin, external-identity
\* login), and posts created and deleted with those tokens.

\* the external identities that log in: one with a name, one with an e-mail only
OwnProfiles == {pr \in Profiles : pr.sub \in {"g1", "g2"}}

NextOwn ==
    \/ seedAdmin
    \/ Login(admin, "1900")
    \/ \E pr \in OwnProfiles : Callback1(pr)
    \/ \E r \in PendingNow : Callback2(r)
    \/ \E r \in PendingNow : CallbackLink(r)
    \/ \E r \in PendingNow : CallbackAdd(r)
    \/ \E h \in Headers : nextBlogId <= MaxBlogs /\ CreateBlog(h, Body1)
    \/ \E h \in Headers, id \in RequestIds : DeleteBlog1(h, id)
    \/ \E r \in PendingNow : DeleteBlog2(r)

SpecOwn == Init /\ [][NextOwn]_vars

----------------------------------------------------------------------------
\* Every route, with the store answering each operation it was sent: a handler
\* suspended at an await of a store operation is resumed in the end.  The
\* process is not restarted from outside.

NextLive ==
    \/ seedAdmin
    \/ \E u \in {al, Number42} : Register1(u, "pw1")
    \/ \E r \in PendingNow : Register2(r)
    \/ Login(admin, "1900")
    \/ \E pr \in OwnProfiles : Callback1(pr)
    \/ \E r \in PendingNow : Callback2(r)
    \/ \E r \in PendingNow : CallbackLink(r)
    \/ \E r \in PendingNow : CallbackAdd(r)
    \/ \E h \in Headers : ListBlogs(h)
    \/ \E id \in RequestIds : GetBlog(id)
    \/ \E h \in Headers : nextBlogId <= MaxBlogs /\ CreateBlog(h, Body1)
    \/ \E h \in Headers, id \in RequestIds : PutBlog1(h, id, Body2)
    \/ \E r \in PendingNow : PutBlog2(r)
    \/ \E h \in Headers, id \in RequestIds : DeleteBlog1(h, id)
    \/ \E r \in PendingNow : DeleteBlog2(r)
    \/ \E h \in Headers : AdminStats(h)

\* the store answers the operation a suspended handler awaits
StoreAnswers(r) ==
    \/ Register2(r)
    \/ Callback2(r)
    \/ CallbackLink(r)
    \/ CallbackAdd(r)
    \/ PutBlog2(r)
    \/ DeleteBlog2(r)

SpecLive ==
    /\ Init
    /\ [][NextLive]_vars
    /\ WF_vars(\E r \in PendingNow : StoreAnswers(r))

----------------------------------------------------------------------------
\* The process under any environment: started with whatever .env holds,
\* restarted, and redeployed with another .env, while overlapping OAuth
\* callbacks are suspended at their awaits and other routes are served.

\* the state before seedAdmin of a process started under env
InitDb ==
    \E env \in Envs :
        /\ phase = "starting"
        /\ users = << >>
        /\ blogs = << >>
        /\ nextBlogId = 1
        /\ tokens = {}
        /\ clock = 0
        /\ inflight = EmptyBag
        /\ last = Response("none", 0, "")
        /\ proc = NewProcess(env)
        /\ client = NoSession

\* the process exits and is started again after .env was rewritten:
\* dotenv.config() reads it once, when the module is loaded
Redeploy(env) ==
    /\ phase = "serving"
    /\ phase' = "starting"
    /\ inflight' = EmptyBag
    /\ proc' = NewProcess(env)
    /\ UNCHANGED <<users, blogs, nextBlogId, tokens, clock, last, client>>

NextDb ==
    \/ seedAdmin
    \/ Restart
    \/ \E env \in Envs : Redeploy(env)
    \/ \E pr \in OwnProfiles : Callback1Within(MaxRacing, pr)
    \/ \E r \in PendingNow : Callback2(r)
    \/ \E r \in PendingNow : CallbackLink(r)
    \/ \E r \in PendingNow : CallbackAdd(r)
    \/ \E id \in RequestIds : GetBlog(id)
    \/ nextBlogId <= MaxBlogs /\ CreateBlog(NoHeader, Body1)

SpecDb == InitDb /\ [][NextDb]_vars

----------------------------------------------------------------------------
\* The login page of the client and the windows that post messages to it.

\* origin.endsWith(suffix)
EndsWith(s, suffix) ==
    /\ Len(s) >= Len(suffix)
    /\ SubSeq(s, Len(s) - Len(suffix) + 1, Len(s)) = suffix

\* origin.includes(sub)
Includes(s, sub) ==
    \E i \in 1..(Len(s) - Len(sub) + 1) : SubSeq(s, i, i + Len(sub) - 1) = sub

DotRunApp == <<".","r","u","n",".","a","p","p">>
Localhost == <<"l","o","c","a","l","h","o","s","t">>

\* the origin the application is served from (APP_URL)
AppOrigin == <<"h","t","t","p","s",":","/","/","z","a",".","r","u","n",".","a","p","p">>
\* origins of other parties
OtherRunApp == <<"h","t","t","p","s",":","/","/","x","y",".","r","u","n",".","a","p","p">>
LocalhostLookalike == <<"h","t","t","p","s",":","/","/","l","o","c","a","l","h","o","s","t",".","x","y",".","i","o">>
Elsewhere == <<"h","t","t","p","s",":","/","/","x","y",".","i","o">>
Origins == {AppOrigin, OtherRunApp, LocalhostLookalike, Elsewhere}

\* a string in the place of the token that the server never signed
Unsigned == [NoToken EXCEPT !.id = 1, !.username = admin, !.role = "admin"]

\* event.data of the messages a window may post
Messages ==
    {[type |-> t, token |-> k, user |-> Claims(k)] :
        t \in {"OAUTH_AUTH_SUCCESS", "PING"}, k \in tokens \cup {Unsigned}}

\* login(newToken, newUser) of App
LoggedIn(c, newToken, newUser) == [c EXCEPT !.token = newToken, !.user = newUser]

\* the user opens /login; with a stored user the page leaves for /dashboard
OpenLogin ==
    /\ client.page # "/login"
    /\ client' = [client EXCEPT
                    !.page = IF client.user # NoUser THEN "/dashboard" ELSE "/login"]
    /\ UNCHANGED <<phase, users, blogs, nextBlogId, tokens, clock, inflight,
                  last, proc>>

\* handleMessage of Login, the listener of 'message' events while /login is
\* shown, run for an event of the given origin and data
HandleMessage(origin, data) ==
    /\ client.page = "/login"
    /\ IF ~EndsWith(origin, DotRunApp) /\ ~Includes(origin, Localhost)
       THEN client' = [client EXCEPT !.origin = origin]
       ELSE IF data.type = "OAUTH_AUTH_SUCCESS"
       THEN client' = [LoggedIn(client, data.token, data.user) EXCEPT
                         !.page = "/dashboard", !.origin = origin]
       ELSE client' = [client EXCEPT !.origin = origin]
    /\ UNCHANGED <<phase, users, blogs, nextBlogId, tokens, clock, inflight,
                  last, proc>>

\* the page the callback answered with runs in the popup, at the origin of the
\* application, and posts the token and the user to window.opener
PopupPosts ==
    /\ last.op = "callback" /\ last.status = 200
    /\ HandleMessage(AppOrigin, [type |-> "OAUTH_AUTH_SUCCESS",
                                 token |-> last.token, user |-> last.user])

\* a window of another origin posts a message to the client window
OtherWindowPosts(origin, data) ==
    /\ origin # AppOrigin
    /\ HandleMessage(origin, data)

\* logout of App
Logout ==
    /\ client.user # NoUser
    /\ client' = [client EXCEPT !.token = NoToken, !.user = NoUser, !.page = "/"]
    /\ UNCHANGED <<phase, users, blogs, nextBlogId, tokens, clock, inflight,
                  last, proc>>

NextClient ==
    \/ seedAdmin
    \/ Login(admin, "1900")
    \/ \E pr \in OwnProfiles : Callback1(pr)
    \/ \E r \in PendingNow : Callback2(r)
    \/ \E r \in PendingNow : CallbackLink(r)
    \/ \E r \in PendingNow : CallbackAdd(r)
    \/ OpenLogin
    \/ PopupPosts
    \/ \E o \in Origins, d \in Messages : OtherWindowPosts(o, d)
    \/ Logout

SpecClient == Init /\ [][NextClient]_vars

----------------------------------------------------------------------------
\* Properties of the blog routes (checked under Spec).

\* The caller of a request with header h is authenticated, is no admin and
\* does not own the existing post id.
NonOwnerCase(h, id) ==
    /\ h.kind = "bearer" /\ ~VerifyFails(h)
    /\ id \in BlogIds
    /\ h.tok.role # "admin"
    /\ blogs[id].user_id # h.tok.id

\* C1: a PUT or DELETE of an existing post by an authenticated caller who is
\* neither its owner nor an admin is answered 403 whatever the body is, without
\* suspending, and leaves the post in the store as it was.
C1_NonOwnerForbidden ==
    [][\A h \in Headers, id \in RequestIds :
         (/\ NonOwnerCase(h, id)
          /\ \/ \E b \in UpdateBodies : PutBlog1(h, id, b)
             \/ DeleteBlog1(h, id))
         => /\ last'.op \in {"put", "delete"}
            /\ last'.status = 403
            /\ last'.hdr = h /\ last'.blogId = id
            /\ inflight' = inflight
            /\ blogs' = blogs
            /\ id \in DOMAIN blogs']_vars

C1_Witness ==
    /\ last.op \in {"put", "delete"}
    /\ last.status = 403
    /\ last.caller.role = "user"
    /\ last.blogId \in BlogIds
    /\ blogs[last.blogId].user_id # last.caller.id
    /\ blogs[last.blogId].user_id # 0

\* C2: the anonymous listing (no token, or a token that fails verification)
\* holds no post with a non-null owner.
C2_AnonymousListOnlyOrphans ==
    (last.op = "list" /\ last.caller = Anonymous)
    => \A k \in DOMAIN last.docs : last.docs[k].data.user_id = 0

C2_Witness ==
    /\ last.op = "list" /\ last.caller = Anonymous
    /\ last.hdr.kind = "bad"
    /\ \E i \in BlogIds :
         /\ blogs[i].user_id # 0
         /\ \A k \in DOMAIN last.docs : last.docs[k].id # i

\* C3: the listing of an authenticated caller, admin or not, holds exactly the
\* stored posts whose owner is the caller's token id, each once.
C3_AuthenticatedListExactlyOwn ==
    [][\A h \in Headers :
         (TryAuthenticate(h) # Anonymous /\ ListBlogs(h))
         => /\ {last'.docs[k].id : k \in DOMAIN last'.docs}
                 = {i \in BlogIds : blogs[i].user_id = h.tok.id}
            /\ Len(last'.docs) = Cardinality({i \in BlogIds : blogs[i].user_id = h.tok.id})
            /\ \A k \in DOMAIN last'.docs :
                 last'.docs[k].data = blogs[last'.docs[k].id]]_vars

C3_Witness ==
    /\ last.op = "list" /\ last.caller.role = "admin"
    /\ \E j \in BlogIds :
         /\ blogs[j].user_id # 0 /\ blogs[j].user_id # last.caller.id
         /\ \A k \in DOMAIN last.docs : last.docs[k].id # j

\* C10: no step changes the owner of a post that stays in the store, ids are
\* not handed out twice, and a new post gets the owner its request carried.
C10_OwnerImmutable ==
    [][/\ \A i \in BlogIds \cap DOMAIN blogs' : blogs'[i].user_id = blogs[i].user_id
       /\ \A i \in DOMAIN blogs' \ BlogIds :
            /\ i >= nextBlogId
            /\ blogs'[i].user_id = last'.caller.id
       /\ nextBlogId' >= nextBlogId]_vars

C10_Witness ==
    /\ last.op = "put" /\ last.status = 200
    /\ last.caller.role = "admin"
    /\ last.blogId \in BlogIds
    /\ blogs[last.blogId].updated_at >= 0
    /\ blogs[last.blogId].user_id # last.caller.id
    /\ blogs[last.blogId].user_id # 0

\* the three strict-mode requests with header h and post id
StrictRequest(h, id) ==
    \/ \E b \in UpdateBodies : PutBlog1(h, id, b)
    \/ DeleteBlog1(h, id)
    \/ AdminStats(h)

\* C11: on PUT and DELETE /api/blogs/:id and GET /api/admin/stats a request
\* without token is answered 401 Unauthorized and a request whose token fails
\* verification 403 Forbidden; the answer is the same whether or not the post
\* exists, carries no caller and no data, no store operation is started and
\* both collections stay as they were.
C11_StrictModeRejects ==
    [][\A h \in Headers, id \in RequestIds :
         (/\ h.kind = "none" \/ VerifyFails(h)
          /\ last'.op \in {"put", "delete", "stats"} /\ last'.hdr = h
          /\ StrictRequest(h, id))
         => /\ last'.status = (IF h.kind = "none" THEN 401 ELSE 403)
            /\ last'.error = (IF h.kind = "none" THEN "Unauthorized" ELSE "Forbidden")
            /\ last'.caller = Anonymous
            /\ last'.docs = << >> /\ last'.userCount = -1
            /\ inflight' = inflight
            /\ blogs' = blogs /\ users' = users]_vars

C11_Witness ==
    /\ last.op = "put" /\ last.status = 403 /\ last.error = "Forbidden"
    /\ last.hdr.kind = "bad"
    /\ last.blogId \in BlogIds
    /\ blogs[last.blogId].user_id = 0
    /\ blogs[last.blogId].updated_at < 0

\* C12: no answer of GET or POST /api/blogs is 401 or 403.  A POST with a
\* well-formed body answers 201 and stores one new post whose owner is the
\* token's id when the token verifies and null when the token is absent or
\* fails verification; nothing else in the store changes.
C12_BestEffortNeverRejects ==
    [][/\ last'.op \in {"list", "create"} => last'.status \notin {401, 403}
       /\ last'.op = "list" => last'.status = 200
       /\ \A h \in Headers, b \in CreateBodies :
              (last'.op = "create" /\ last'.hdr = h /\ CreateBlog(h, b))
              => /\ last'.status \in {201, 500}
                 /\ ~HasUndefined(b)
                      => /\ last'.status = 201
                         /\ DOMAIN blogs' = BlogIds \cup {last'.blogId}
                         /\ last'.blogId \notin BlogIds
                         /\ \A i \in BlogIds : blogs'[i] = blogs[i]
                         /\ blogs'[last'.blogId].user_id =
                              (IF h.kind = "bearer" /\ clock < h.tok.exp
                               THEN h.tok.id ELSE 0)
                         /\ last'.docs[1].data = blogs'[last'.blogId]]_vars

C12_Witness ==
    /\ last.op = "create" /\ last.status = 201
    /\ last.hdr.kind = "bad"
    /\ last.blogId \in BlogIds
    /\ blogs[last.blogId].user_id = 0
    /\ tokens # {}

\* The caller of a request with header h is authenticated and is the owner of
\* the existing post id, or an admin.
OwnerOrAdminCase(h, id) ==
    /\ h.kind = "bearer" /\ ~VerifyFails(h)
    /\ id \in BlogIds
    /\ h.tok.role = "admin" \/ blogs[id].user_id = h.tok.id

C14_StatsAdminOnly ==
    [][\A h \in Headers :
         (h.kind = "bearer" /\ ~VerifyFails(h) /\ AdminStats(h))
         => /\ IF h.tok.role = "admin"
               THEN /\ last'.status = 200
                    /\ last'.userCount = Cardinality(DOMAIN users)
               ELSE /\ last'.status = 403
                    /\ last'.error = "Admin access required"
                    /\ last'.userCount = -1
            /\ last'.op = "stats" /\ last'.hdr = h
            /\ users' = users /\ blogs' = blogs /\ inflight' = inflight]_vars

C14_Witness ==
    /\ last.op = "stats" /\ last.status = 403
    /\ last.error = "Admin access required"
    /\ last.caller.role = "user" /\ last.caller.id \in UserIds
    /\ Len(users) = 2

\* the request with header h comes from a verified caller with role admin
IsAdminRequest(h) == h.kind = "bearer" /\ ~VerifyFails(h) /\ h.tok.role = "admin"

\* C26: a step that changes or removes a stored post without owner is the
\* write of a PUT or DELETE whose caller has role admin.  A PUT or DELETE of
\* such a post by anyone else is answered at once, 401 without token and 403
\* with a token that fails verification or a verified token of another role,
\* and starts no write: no write on a post without owner is ever pending for
\* a caller who is not an admin.
C26_OrphansAdminOnly ==
    [][/\ \A i \in BlogIds :
            (blogs[i].user_id = 0 /\ (i \notin DOMAIN blogs' \/ blogs'[i] # blogs[i]))
            => /\ last'.op \in {"put", "delete"} /\ last'.status = 200
               /\ last'.blogId = i
               /\ last'.caller.role = "admin"
       /\ \A h \in Headers, id \in RequestIds :
            (/\ id \in BlogIds /\ blogs[id].user_id = 0
             /\ ~IsAdminRequest(h)
             /\ inflight' # inflight
                  \/ (last'.op \in {"put", "delete"} /\ last'.hdr = h)
             /\ \/ \E b \in UpdateBodies : PutBlog1(h, id, b)
                \/ DeleteBlog1(h, id))
            => /\ last'.status = (IF h.kind = "none" THEN 401 ELSE 403)
               /\ last'.blogId = id
               /\ inflight' = inflight
               /\ blogs' = blogs
       /\ \A r \in BagToSet(inflight') :
            (/\ r.kind \in {"put", "delete"}
             /\ r.blogId \in DOMAIN blogs'
             /\ blogs'[r.blogId].user_id = 0)
            => r.caller.role = "admin"]_vars

C26_Witness ==
    /\ last.op = "delete" /\ last.status = 403
    /\ last.error = "Unauthorized to delete this blog"
    /\ last.caller.role = "user"
    /\ last.blogId \in BlogIds
    /\ blogs[last.blogId].user_id = 0
    /\ \E t \in tokens : t.role = "admin"

\* C27: the owner of every stored post is null or the id of a stored user
\* document, and so is the id of every token issued and of every caller a
\* suspended write was admitted for.  (SpecOwn)
C27_OwnersExist ==
    /\ \A i \in BlogIds : blogs[i].user_id = 0 \/ blogs[i].user_id \in UserIds
    /\ \A t \in tokens : t.id \in UserIds
    /\ \A r \in PendingNow :
         r.kind \in {"put", "delete"} => r.caller.id \in UserIds

C27_Witness ==
    /\ last.op = "create" /\ last.status = 201
    /\ last.blogId \in BlogIds
    /\ blogs[last.blogId].user_id = last.caller.id
    /\ last.caller.id \in UserIds
    /\ users[last.caller.id].password = NoHash
    /\ users[last.caller.id].google_id = "g2"
    /\ \E t \in tokens : t.role = "admin"

----------------------------------------------------------------------------
\* Properties of overlapping writes (checked under SpecRace).

\* C22: a PUT or DELETE of a verified caller on an id that is not in the
\* store is answered 404 "Blog not found": at the existence check, before the
\* ownership check and whoever the caller is, and also when the post was
\* removed by another request between the existence check and the write.
C22_AbsentIsNotFound ==
    [][/\ \A h \in Writers, id \in RequestIds :
            (/\ ~VerifyFails(h) /\ id \notin BlogIds
             /\ inflight' # inflight
                  \/ (last'.op \in {"put", "delete"} /\ last'.hdr = h)
             /\ \/ PutBlog1Within(MaxRacing, h, id, Body2)
                \/ DeleteBlog1Within(MaxRacing, h, id))
            => /\ last'.status = 404 /\ last'.error = "Blog not found"
               /\ last'.blogId = id
               /\ inflight' = inflight
       /\ \A r \in PendingNow :
            (/\ r.kind \in {"put", "delete"} /\ r.blogId \notin BlogIds
             /\ PutBlog2(r) \/ DeleteBlog2(r))
            => /\ last'.status = 404 /\ last'.error = "Blog not found"
               /\ last'.blogId = r.blogId]_vars

\* ids handed out and no longer in the store: the posts a delete removed
Deleted == {i \in 1..(nextBlogId - 1) : i \notin BlogIds}

\* C29: a post that a delete removed is never in the store again.  The write
\* of an update that passed its existence check before the delete stores
\* nothing and is answered with an error; a second delete leaves the store as
\* it is; a read of the id answers 404 and no listing holds it.
C29_DeletionPermanent ==
    [][/\ \A i \in Deleted : i \notin DOMAIN blogs'
       /\ \A r \in PendingNow :
            /\ (r.kind = "put" /\ r.blogId \in Deleted /\ PutBlog2(r))
                 => /\ blogs' = blogs
                    /\ last'.op = "put" /\ last'.status = 500
                    /\ last'.blogId = r.blogId
            /\ (r.kind = "delete" /\ r.blogId \in Deleted /\ DeleteBlog2(r))
                 => blogs' = blogs
       /\ \A id \in RequestIds :
            (id \in Deleted /\ GetBlog(id))
            => /\ last'.op = "get" /\ last'.status = 404
               /\ last'.docs = << >>
       /\ (last'.op = "list" /\ last' # last)
            => \A k \in DOMAIN last'.docs : last'.docs[k].id \notin Deleted]_vars

C29_Witness ==
    /\ last.op = "put" /\ last.status = 500
    /\ last.blogId \in Deleted
    /\ last.caller.role = "user"
    /\ inflight = EmptyBag

----------------------------------------------------------------------------
\* Properties of the account routes.

\* u is 'admin' up to the case of its letters
IsAdminIgnoringCase(u) ==
    /\ Len(u) = 5
    /\ u[1] \in {"a", "A"} /\ u[2] \in {"d", "D"} /\ u[3] \in {"m", "M"}
    /\ u[4] \in {"i", "I"} /\ u[5] \in {"n", "N"}

ReservedError == "Cannot register with this username"

\* C4: a register request whose username is 'admin' in any case is answered
\* with the reserved-username error at once; it suspends nothing and the user
\* collection is unchanged.  (SpecAuth)
C4_AdminNameNeverRegistered ==
    [][\A u \in RegUsernames, p \in Passwords :
         (IsAdminIgnoringCase(u) /\ Register1(u, p))
         => /\ last'.op = "register" /\ last'.status = 400
            /\ last'.error = ReservedError /\ last'.username = u
            /\ users' = users
            /\ inflight' = inflight]_vars

C4_Witness ==
    /\ last.op = "register" /\ last.status = 400
    /\ last.error = ReservedError
    /\ last.username = AdMin
    /\ Len(users) > 1

\* user document i is the one the registration of (u, p) created
RegisteredAs(i, u, p) ==
    /\ users[i].username = u
    /\ users[i].password = Hash(p)
    /\ users[i].role = "user"

\* C5: a login with a pair whose registration succeeded answers 200 with a
\* token whose claims are the id, username and role of that registration.
\* (SpecSeq: the requests are sent one after the other.)
C5_RegisteredPairLogsIn ==
    [][\A u \in LoginUsernames, p \in LoginPasswords :
         ((\E i \in UserIds : RegisteredAs(i, u, p)) /\ Login(u, p))
         => /\ last'.status = 200
            /\ \E i \in UserIds :
                 /\ RegisteredAs(i, u, p)
                 /\ Claims(last'.token) = [id |-> i, username |-> u, role |-> "user"]]_vars

\* a local-credential user that the e-mail address e identifies: register
\* stores the address the user gave only as the username
LocalUserOf(i, e) ==
    /\ users[i].password # NoHash
    /\ users[i].email = e \/ users[i].username = e

\* C7: an external-identity login that no subject id matches and whose e-mail
\* identifies an existing local-credential user ends by setting the subject id
\* on that record and issuing the token for it, and adds no user.  (SpecSeq)
C7_EmailLinksLocalUser ==
    [][\A r \in PendingNow :
         (/\ CallbackAdd(r) \/ CallbackLink(r)
          /\ r.profile.email # Falsy
          /\ \E i \in UserIds : LocalUserOf(i, r.profile.email))
         => /\ Len(users') = Len(users)
            /\ \E i \in UserIds :
                 /\ LocalUserOf(i, r.profile.email)
                 /\ users'[i].google_id = r.profile.sub
                 /\ last'.token.id = i]_vars

\* C8: no two user documents have the same username.  (SpecAuth)
C8_UsernamesUnique ==
    \A i, j \in UserIds : i # j => users[i].username # users[j].username

\* C9: once seeding has run, exactly one user document has the username
\* 'admin', and it has the role admin.  (SpecAuth)
C9_SingleSeededAdmin ==
    phase = "serving"
    => /\ Cardinality(UsersWhereUsername(admin)) = 1
       /\ \A i \in UsersWhereUsername(admin) : users[i].role = "admin"

----------------------------------------------------------------------------
\* Properties of the token lifetime (checked under SpecClock).

\* C6: a token more than ExpiresIn hours old is rejected by the strict routes
\* with 403 and makes the caller anonymous on the best-effort route; every
\* token expires ExpiresIn hours after it was issued, and only a successful
\* login adds a token, issued at the current time.
C6_TokenLifetimeFixed ==
    [][/\ \A h \in Headers :
            (h.kind = "bearer" /\ clock - h.tok.iat > ExpiresIn)
            => /\ AdminStats(h) => (last'.status = 403 /\ last'.error = "Forbidden")
               /\ (\A id \in RequestIds : DeleteBlog1(h, id)
                      => (last'.status = 403 /\ last'.error = "Forbidden"))
               /\ ListBlogs(h) => last'.caller = Anonymous
       /\ \A t \in tokens' : t.exp = t.iat + ExpiresIn
       /\ tokens \subseteq tokens'
       /\ tokens' # tokens
            => /\ last'.op = "login" /\ last'.status = 200
               /\ tokens' = tokens \cup {last'.token}
               /\ last'.token.iat = clock]_vars

C6_Witness ==
    /\ last.op = "stats" /\ last.status = 403
    /\ last.hdr.kind = "bearer"
    /\ last.hdr.tok.role = "admin"
    /\ clock - last.hdr.tok.iat > ExpiresIn
    /\ \E t \in tokens : clock < t.exp

----------------------------------------------------------------------------
\* Properties of login and registration (checked under SpecAuth).

SocialLoginError == "This account uses social login"

\* C15: a login is answered 200 or 401.  It is answered 401 with no token
\* issued when no user has the username, when no user with the username has a
\* password hash, and when no user with the username has the hash of the
\* password; a 200 carries a token for a user that has the username and the
\* hash of the password.  The record looked up decides the message: one
\* without a hash gives the social-login message.  No login changes the store.
C15_LoginFailures ==
    [][\A u \in LoginUsernames, p \in LoginPasswords :
         Login(u, p)
         => /\ users' = users /\ blogs' = blogs /\ inflight' = inflight
            /\ last'.op = "login" /\ last'.status \in {200, 401}
            /\ (last'.status = 401)
                 => /\ tokens' = tokens /\ last'.token = NoToken
                    /\ last'.error \in {"Invalid credentials", SocialLoginError}
            /\ (\A i \in UserIds : users[i].username # u)
                 => (last'.status = 401 /\ last'.error = "Invalid credentials")
            /\ (/\ \E i \in UserIds : users[i].username = u
                /\ \A i \in UserIds : users[i].username = u => users[i].password = NoHash)
                 => (last'.status = 401 /\ last'.error = SocialLoginError)
            /\ (\A i \in UserIds : users[i].username = u => users[i].password # Hash(p))
                 => last'.status = 401
            /\ (last'.status = 200)
                 => /\ last'.token.id \in UserIds
                    /\ users[last'.token.id].username = u
                    /\ users[last'.token.id].password = Hash(p)
                    /\ tokens' = tokens \cup {last'.token}]_vars

C15_Witness ==
    /\ last.op = "login" /\ last.status = 401
    /\ last.error = SocialLoginError
    /\ last.username = al
    /\ \E i \in UserIds : users[i].username = al
    /\ \A i \in UserIds : users[i].username = al => users[i].password = NoHash
    /\ tokens # {}

\* C16: a registration whose username some user document has, letter for
\* letter, is answered 400 "Username already exists" and adds nothing.  One
\* whose username is not reserved and that no document has goes on to the
\* add, which appends exactly one document with that username, the hash of the
\* password and role user, and answers 201 with its id, username and role and
\* nothing else.
C16_RegisterDuplicateOrCreate ==
    [][/\ \A u \in RegUsernames, p \in Passwords :
            (/\ last' = last \/ (last'.op = "register" /\ last'.username = u)
             /\ Register1(u, p))
            => /\ users' = users
               /\ (\E i \in UserIds : users[i].username = u)
                    => /\ last'.op = "register" /\ last'.status = 400
                       /\ last'.error \in {"Username already exists", ReservedError}
                       /\ ~IsAdminIgnoringCase(u)
                            => last'.error = "Username already exists"
                       /\ inflight' = inflight
               /\ (~IsAdminIgnoringCase(u) /\ \A i \in UserIds : users[i].username # u)
                    => /\ last' = last
                       /\ BagCardinality(inflight') = BagCardinality(inflight) + 1
                       /\ \E r \in BagToSet(inflight') :
                            /\ r.kind = "register"
                            /\ r.username = u /\ r.password = p
                            /\ CopiesIn(r, inflight') = CopiesIn(r, inflight) + 1
       /\ \A r \in PendingNow :
            (last'.op = "register" /\ Register2(r))
            => /\ Len(users') = Len(users) + 1
               /\ \A i \in UserIds : users'[i] = users[i]
               /\ users'[Len(users')].username = r.username
               /\ users'[Len(users')].password = Hash(r.password)
               /\ users'[Len(users')].role = "user"
               /\ last'.op = "register" /\ last'.status = 201
               /\ last'.user = [id |-> Len(users'), username |-> r.username,
                                role |-> "user"]
               /\ last'.token = NoToken /\ last'.docs = << >>]_vars

C16_Witness ==
    /\ last.op = "register" /\ last.status = 201
    /\ last.username = Al
    /\ \E i \in UserIds : i < last.user.id /\ users[i].username = al
    /\ users[last.user.id].username = Al
    /\ users[last.user.id].role = "user"

\* C17: no step removes a user document or changes its id, and the only change
\* a step makes to an existing user document is the value of google_id:
\* username, password hash, role, e-mail, avatar and creation time stay.
C17_UsersOnlyLinked ==
    [][/\ Len(users') >= Len(users)
       /\ \A i \in UserIds :
            /\ users'[i].username = users[i].username
            /\ users'[i].password = users[i].password
            /\ users'[i].role = users[i].role
            /\ users'[i].email = users[i].email
            /\ users'[i].avatar = users[i].avatar
            /\ users'[i].created_at = users[i].created_at
            /\ users'[i].google_id # users[i].google_id
                 => /\ last'.op = "callback" /\ last'.status = 200
                    /\ last'.user.id = i]_vars

C17_Witness ==
    \E i \in UserIds :
        /\ users[i].google_id = "g2"
        /\ users[i].avatar = "pic"
        /\ users[i].username = al
        /\ last.op = "callback" /\ last.user.id = i

\* the document seedAdmin stores
IsSeededAdmin(doc) ==
    /\ doc.username = admin
    /\ doc.password = Hash("1900")
    /\ doc.role = "admin"
    /\ doc.google_id = ""

\* C25: a step that adds a user document with role admin is the startup
\* seeding and adds the bootstrap account; register and the external-identity
\* login add documents with role user; no step changes the role of a stored
\* document; and every token issued with role admin carries the id of the
\* bootstrap account.  (SpecAuth)
C25_NoPrivilegeEscalation ==
    [][/\ \A i \in DOMAIN users' \ UserIds :
            IF users'[i].role = "admin"
            THEN /\ phase = "starting" /\ phase' = "serving"
                 /\ IsSeededAdmin(users'[i])
                 /\ \A j \in UserIds : users[j].username # admin
            ELSE /\ users'[i].role = "user"
                 /\ last'.op \in {"register", "callback"}
                 /\ last'.user.id = i /\ last'.user.role = "user"
       /\ \A i \in UserIds : users'[i].role = users[i].role
       /\ \A t \in tokens' :
            t.role = "admin"
            => /\ t.id \in DOMAIN users'
               /\ IsSeededAdmin(users'[t.id])
               /\ t.username = admin]_vars

C25_Witness ==
    /\ \E t \in tokens : t.role = "admin" /\ IsSeededAdmin(users[t.id])
    /\ \E t \in tokens :
         /\ t.role = "user" /\ t.username = admin
         /\ users[t.id].role = "user" /\ users[t.id].google_id = "g3"
    /\ \E i \in UserIds : users[i].username = al /\ users[i].password # NoHash

----------------------------------------------------------------------------
\* Properties of the account resolution (checked under SpecResolve).

\* C21: an external-identity login whose subject id a user document has is
\* answered with such a document at once, whoever has the profile's e-mail,
\* and otherwise resolves nothing before the e-mail lookup.  A link is made
\* to a document with the profile's e-mail, and adds none.  A document is
\* added only when no document has the subject id and none has the e-mail;
\* it has role user and no password hash.  No two documents have the same
\* subject id, so every login of one identity resolves to one document.
C21_FirstMatchWins ==
    [][/\ \A pr \in ResolveProfiles :
            Callback1Within(MaxRacing, pr)
            => /\ users' = users
               /\ IF UsersWhereGoogleId(pr.sub) # {}
                  THEN /\ last'.op = "callback" /\ last'.status = 200
                       /\ last'.user.id \in UsersWhereGoogleId(pr.sub)
                       /\ last'.token.id = last'.user.id
                       /\ inflight' = inflight
                  ELSE tokens' = tokens
       /\ \A r \in PendingNow :
            /\ CallbackLink(r)
                 => /\ Len(users') = Len(users)
                    /\ users[r.doc].email = r.profile.email
                    /\ users'[r.doc].google_id = r.profile.sub
                    /\ last'.user.id = r.doc
            /\ CallbackAdd(r)
                 => /\ UsersWhereGoogleId(r.profile.sub) = {}
                    /\ r.profile.email # Falsy => UsersWhereEmail(r.profile.email) = {}
                    /\ Len(users') = Len(users) + 1
                    /\ users'[Len(users')].role = "user"
                    /\ users'[Len(users')].password = NoHash
                    /\ users'[Len(users')].google_id = r.profile.sub
                    /\ last'.user.id = Len(users')
       /\ \A i, j \in DOMAIN users' :
            (i # j /\ users'[i].google_id # "")
            => users'[i].google_id # users'[j].google_id]_vars

----------------------------------------------------------------------------
\* Properties of error handling (checked under SpecFail).

\* C18: the server process never terminates because of a request, and no
\* request is left without an answer by an exception that no handler caught.
C18_FailuresCaught ==
    /\ phase # "crashed"
    /\ \A r \in PendingNow : r.pc # "unhandled"

\* the routes whose handlers await the store after their first answerable point
Routes == {"register", "callback", "put", "delete"}

\* C28: every request is answered, once.  A step sends at most the answer of
\* one request; when the strict middleware has answered, the handler is not
\* entered: nothing is suspended and the store is left alone.  A suspended
\* handler leaves only by a step of its own that answers it or takes it to its
\* next store operation, and every suspended handler leaves in the end: no
\* request stays without answer and none is dropped with the process.
\* (SpecLive)
C28_ExactlyOneResponse ==
    /\ [][/\ \A h \in Headers, id \in RequestIds :
               (/\ AuthenticateToken(h) # 0
                /\ \/ PutBlog1(h, id, Body2)
                   \/ DeleteBlog1(h, id)
                   \/ AdminStats(h))
               => /\ last'.status = AuthenticateToken(h)
                  /\ inflight' = inflight
                  /\ blogs' = blogs
          /\ \A r \in PendingNow :
               (CopiesIn(r, inflight') < CopiesIn(r, inflight)) => StoreAnswers(r)
          /\ BagCardinality(inflight') <= BagCardinality(inflight) + 1
          /\ BagCardinality(inflight') >= BagCardinality(inflight) - 1
          /\ (BagCardinality(inflight') > BagCardinality(inflight)) => last' = last]_vars
    /\ \A k \in Routes :
         (\E r \in PendingNow : r.kind = k) ~> (\A r \in PendingNow : r.kind # k)

----------------------------------------------------------------------------
\* Properties of the listings.

\* C19: the anonymous listing holds min(20, number of null-owner posts)
\* entries, each a different stored null-owner post, in the order of their
\* creation times, newest first; no post it leaves out was created after one
\* it holds.  (SpecFeed)
C19_AnonymousListNewest20 ==
    [][\A h \in FeedHeaders :
         (TryAuthenticate(h) = Anonymous /\ last'.op = "list" /\ ListBlogs(h))
         => LET docs == last'.docs
                orphans == {i \in BlogIds : blogs[i].user_id = 0}
                listed == {docs[k].id : k \in DOMAIN docs}
            IN /\ Len(docs) <= 20
               /\ Len(docs) = (IF Cardinality(orphans) < 20
                               THEN Cardinality(orphans) ELSE 20)
               /\ listed \subseteq orphans
               /\ Cardinality(listed) = Len(docs)
               /\ \A k \in DOMAIN docs : docs[k].data = blogs[docs[k].id]
               /\ \A k, l \in DOMAIN docs :
                    k < l => docs[k].data.created_at >= docs[l].data.created_at
               /\ \A i \in orphans \ listed : \A k \in DOMAIN docs :
                    blogs[i].created_at <= docs[k].data.created_at]_vars

C19_Witness ==
    /\ last.op = "list" /\ last.caller = Anonymous
    /\ Len(last.docs) = 20
    /\ Cardinality(AnonymousBlogs) = 21
    /\ \E i \in AnonymousBlogs :
         /\ \A k \in DOMAIN last.docs : last.docs[k].id # i
         /\ blogs[i].created_at = last.docs[20].data.created_at
    /\ \E j \in BlogIds :
         /\ blogs[j].user_id # 0
         /\ blogs[j].created_at > last.docs[20].data.created_at

\* a.created_at as the comparator reads it: the creation time, zero when the
\* post has none
EpochOr(e) == IF e.data.created_at < 0 THEN 0 ELSE e.data.created_at

\* C20: the listing of an authenticated caller is in the order of the creation
\* times, newest first, a post without one counting as time zero; and it is
\* the same whenever the stored posts are the same: a listing that follows a
\* listing of the same caller, with no change of the store in between, holds
\* the same entries in the same order.  (SpecSort, where every step that
\* changes the store also replaces the last response.)
C20_AuthenticatedListDeterministic ==
    [][\A t \in tokens :
         (TryAuthenticate(Bearer(t)) # Anonymous /\ ListBlogs(Bearer(t)))
         => /\ \A k, l \in DOMAIN last'.docs :
                 k < l => EpochOr(last'.docs[k]) >= EpochOr(last'.docs[l])
            /\ (last.op = "list" /\ last.caller = last'.caller)
                 => last'.docs = last.docs]_vars


----------------------------------------------------------------------------
\* Properties of the database handle (checked under SpecDb).

\* The routes answer a failed getDb from their catch blocks.
AnsweredFromCatch == last.status \in {400, 500}

\* C23: the database handle is a singleton of the process.  Once getDb has
\* succeeded, no later call, from whichever of the overlapping requests,
\* initialises again: the module state stays as it is until the process
\* ends, a process makes at most one handle, and every suspended handler
\* holds the handle the process holds.  A getDb that fails leaves the handle
\* unset: the request is answered from its catch block without touching the
\* store, and the next call does not return a handle unless its own
\* initialisation succeeds.
C23_HandleIsSingleton ==
    [][/\ (proc.db # 0 /\ phase' # "starting") => proc' = proc
       /\ proc'.made <= 1
       /\ \A r \in BagToSet(inflight') : r.db # 0 /\ r.db = proc'.db
       /\ GetDb(proc').db \in {0, 1}
       /\ (phase = "serving" /\ phase' = "serving" /\ GetDb(proc).threw) =>
             /\ proc' = proc /\ proc'.db = 0 /\ proc'.apps = 0
             /\ users' = users /\ blogs' = blogs /\ inflight' = inflight
             /\ AnsweredFromCatch'
             /\ GetDb(proc').threw
       /\ (proc'.db = 0 /\ ~GetDb(proc').threw) =>
             /\ ~EnvMissing(proc'.env) /\ proc'.env.privateKey = "valid"
             /\ GetDb(proc').proc.db # 0
      ]_vars

\* C23 happens: a request was answered "Invalid blog ID" by a process whose
\* getDb failed; since then the process was redeployed with a complete
\* environment, and now two callback handlers are suspended, both holding the
\* one handle of the process.
C23_Witness ==
    /\ last.op = "get" /\ last.error = "Invalid blog ID"
    /\ proc.db # 0 /\ proc.made = 1
    /\ BagCardinality(inflight) = 2
    /\ \A r \in PendingNow : r.kind = "callback" /\ r.db = proc.db


----------------------------------------------------------------------------
\* Properties of the client (checked under SpecClient).

\* C24: the client logs in with the token of an OAUTH_AUTH_SUCCESS message
\* only when the message comes from the origin of the application: a
\* message event of any other origin leaves the stored token and the stored
\* user as they are.
C24_OnlyOwnOrigin ==
    [][\A o \in Origins \ {AppOrigin}, d \in Messages :
          HandleMessage(o, d) =>
             /\ client'.token = client.token
             /\ client'.user = client.user]_vars

====
